---- MODULE Spec2Model ----
(***************************************************************************)
(* Model of src/scraper.py: GoogleDevBlogScraper (fetch_page, parse_date,  *)
(* clean_text, scrape_articles, is_valid_article_url,                      *)
(* extract_article_info, scrape_individual_article, generate_rss) and      *)
(* main().                                                                 *)
(*                                                                         *)
(* Text is modelled as a sequence of chunks [txt, len]: `len` characters   *)
(* taken from the text named `txt`.  The empty string is <<>>.  A chunk    *)
(* whose txt is " " is a run of `len` whitespace characters.               *)
(* An optional value (Python None or a value) is <<>> or <<v>>.            *)
(***************************************************************************)
EXTENDS Integers, Sequences, FiniteSets, TLC

VARIABLES
    pc,        \* position of main(): "start", "scraped", "done", "exit1"; "lib" in the function specifications
    now,       \* the clock read by datetime.now / time.time: [sec, micro]
    world,     \* what the network serves in this run: <<>> before the scrape, then <<[net, links]>>
    articles,  \* main's local `articles` (the list scrape_articles returned)
    fetches,   \* one record per fetch_page call made so far: [url, kind, trace]
    caught,    \* the exception scrape_articles' handler caught: <<>> or <<error text>>
    feed,      \* the document generate_rss wrote: <<>> or <<doc>>
    exitWhy,   \* why main called sys.exit(1): "" (it did not), "empty", "error"
    calls,     \* [scrape |-> n, generate |-> n]: how often main started each stage
    call,      \* function specifications: the arguments of the call under study
    ret        \* function specifications: <<>> before the call, then <<result>>

vars == <<pc, now, world, articles, fetches, caught, feed, exitWhy, calls, call, ret>>

\* ---------------------------------------------------------------- bounds

\* fetch_page is studied for max_retries in 0..MaxRetriesArg
MaxRetriesArg == 4
\* lists of containers / links have 0..SmallLen elements, or MaxArticles-1 .. MaxArticles+OverCap
SmallLen == 2
OverCap == 2
\* a page has at most MaxOdd elements that differ from the page's common kind
MaxOdd == 1
\* clock values at the start of a run: 0..MaxClock seconds
MaxClock == 1
\* texts are tried up to OverLen characters beyond each truncation limit
OverLen == 1

\* ---------------------------------------------------------------- values

None == <<>>
Some(v) == <<v>>
Min(a, b) == IF a < b THEN a ELSE b

Chunk(t, n) == [txt |-> t, len |-> n]
Str(t, n) == IF n = 0 THEN <<>> ELSE <<Chunk(t, n)>>
WS == " "

RECURSIVE StrLen(_)
StrLen(s) == IF s = <<>> THEN 0 ELSE s[1].len + StrLen(Tail(s))

\* a slice that keeps one character too many
RECURSIVE Slice_OneMore(_, _)
Slice_OneMore(s, n) ==
    IF s = <<>> \/ n < 0 THEN <<>>
    ELSE IF s[1].len <= n + 1 THEN <<s[1]>> \o Slice_OneMore(Tail(s), n - s[1].len)
    ELSE <<Chunk(s[1].txt, n + 1)>>

\* Python s[:n]
RECURSIVE Slice(_, _)
Slice(s, n) ==
    IF s = <<>> \/ n <= 0 THEN <<>>
    ELSE IF s[1].len <= n THEN <<s[1]>> \o Slice(Tail(s), n - s[1].len)
    ELSE <<Chunk(s[1].txt, n)>>

\* self.base_url, self.search_url
BaseUrl == Str("https://developers.googleblog.com", 33)
SearchUrl == BaseUrl \o Str("/en/search/", 11)

\* max_retries=3, the default of fetch_page
DefaultMaxRetries == 3
\* the cap on processed containers and on processed links
MaxArticles == 20
\* title[:200], enhanced_description[:1000], description[:500]
TitleLimit == 200
DescLimit == 1000
PageDescLimit == 500
\* len(desc_text) > 10
MinDescLen == 10

\* ---------------------------------------------------------------- fetch_page

\* What one session.get(url, timeout=10) meets: a requests exception
\* (exc /= ""), or a response with a status and a body.
GetOutcome(exc, status, body) == [exc |-> exc, status |-> status, body |-> body]

\* response.raise_for_status(): HTTPError for a 4xx or 5xx status
RaisesForStatus(status) == 400 <= status /\ status < 600

\* the try body of one attempt raises requests.RequestException
AttemptFails(out) == out.exc /= "" \/ RaisesForStatus(out.status)

\* str(e) of the RequestException of a failed attempt
ErrorText(out) ==
    IF out.exc /= "" THEN Str(out.exc, 40)
    ELSE IF out.status < 500 THEN Str("Client Error", 60) ELSE Str("Server Error", 60)

\* backoff that grows by one second per attempt instead of doubling
Pow2_Linear(n) == n + 1

RECURSIVE Pow2(_)
Pow2(n) == IF n = 0 THEN 1 ELSE 2 * Pow2(n - 1)

Event(ev, attempt, secs) == [ev |-> ev, attempt |-> attempt, secs |-> secs]

\* the loop `for attempt in range(max_retries)` from `attempt` on; net[k+1] is
\* what the GET of attempt k meets.  kind: "returned" (return response),
\* "raised" (re-raise of the last attempt's error), "none" (the loop ended and
\* the function fell off its end, returning None).
RECURSIVE FetchLoop(_, _, _, _)
FetchLoop(max_retries, net, attempt, trace) ==
    IF attempt >= max_retries
    THEN [kind |-> "none", response |-> None, error |-> None, trace |-> trace]
    ELSE LET out == net[attempt + 1]
             got == Append(trace, Event("get", attempt, 0))
         IN  IF ~AttemptFails(out)
             THEN [kind |-> "returned", response |-> Some(out), error |-> None, trace |-> got]
             ELSE IF attempt < max_retries - 1
                  THEN FetchLoop(max_retries, net, attempt + 1,
                                 Append(got, Event("sleep", attempt, Pow2(attempt))))
                  ELSE [kind |-> "raised", response |-> None,
                        error |-> Some(ErrorText(out)), trace |-> got]

FetchPage(url, max_retries, net) == FetchLoop(max_retries, net, 0, <<>>)

\* ---------------------------------------------------------------- dates

\* a datetime: an instant [sec, micro] and tz, "utc" (aware) or "naive"
DateTime(sec, micro, tz) == [sec |-> sec, micro |-> micro, tz |-> tz]

\* datetime.now(timezone.utc)
UtcNow(clock) == DateTime(clock.sec, clock.micro, "utc")

\* datetime.isoformat(): the text "YYYY-MM-DDTHH:MM:SS[.ffffff][+00:00]"
IsoFormat(dt) ==
    [fmt |-> "iso8601", sec |-> dt.sec, micro |-> dt.micro,
     offset |-> IF dt.tz = "utc" THEN "+00:00" ELSE ""]

\* pub_date.replace('Z', '+00:00')
ReplaceZ(text) == IF text.offset = "Z" THEN [text EXCEPT !.offset = "+00:00"] ELSE text

\* datetime.fromisoformat
FromIsoFormat(text) ==
    DateTime(text.sec, text.micro, IF text.offset = "+00:00" THEN "utc" ELSE "naive")

\* strftime("%a, %d %b %Y %H:%M:%S %z"): whole seconds, "+0000" for an aware UTC datetime
Rfc822(dt) ==
    [fmt |-> "rfc822", sec |-> dt.sec, offset |-> IF dt.tz = "utc" THEN "+0000" ELSE ""]

\* A raw date string: style names its shape, sec the midnight it denotes,
\* tags whether " / TAGS" (text without a month abbreviation) follows it.
\*   "B"  January 15, 2024     "b"  Jan 15, 2024
\*   "B." January. 15, 2024    "b." Jan. 15, 2024    "B.UP" JAN. 15, 2024
\*   "iso" 2024-01-15          "us" 01/15/2024       "other" anything else
DateStr(style, sec, tags) == [style |-> style, sec |-> sec, tags |-> tags]
MonthStyles == {"B", "b", "B.", "b.", "B.UP"}
Formats == <<"B", "b", "B.", "b.", "iso", "us">>

\* '/' in date_str and any(word in date_str.upper() ...)
HasSlashAndMonth(ds) == (ds.tags \/ ds.style = "us") /\ ds.style \in MonthStyles

\* a parse that leaves the parsed datetime naive (no tzinfo)
ParseDate_Naive(date_str, clock) ==
    LET cut == IF HasSlashAndMonth(date_str) THEN [date_str EXCEPT !.tags = FALSE] ELSE date_str
        undotted == IF cut.style = "B.UP" THEN [cut EXCEPT !.style = "b"] ELSE cut
        matches == ~undotted.tags /\ \E i \in 1..Len(Formats) : Formats[i] = undotted.style
    IN  IF matches
        THEN IsoFormat(DateTime(undotted.sec, 0, "naive"))
        ELSE IsoFormat(UtcNow(clock))

ParseDate(date_str, clock) ==
    LET cut == IF HasSlashAndMonth(date_str) THEN [date_str EXCEPT !.tags = FALSE] ELSE date_str
        \* .replace('JAN.', 'JAN') ...: upper-case abbreviations lose their period
        undotted == IF cut.style = "B.UP" THEN [cut EXCEPT !.style = "b"] ELSE cut
        matches == ~undotted.tags /\ \E i \in 1..Len(Formats) : Formats[i] = undotted.style
    IN  IF matches
        THEN IsoFormat(DateTime(undotted.sec, 0, "utc"))
        ELSE IsoFormat(UtcNow(clock))

\* ---------------------------------------------------------------- clean_text

RECURSIVE LStrip(_)
LStrip(s) == IF s /= <<>> /\ s[1].txt = WS THEN LStrip(Tail(s)) ELSE s

RECURSIVE RStrip(_)
RStrip(s) ==
    IF s /= <<>> /\ s[Len(s)].txt = WS THEN RStrip(SubSeq(s, 1, Len(s) - 1)) ELSE s

\* re.sub(r'\s+', ' ', ...)
RECURSIVE CollapseWs(_)
CollapseWs(s) ==
    IF s = <<>> THEN <<>>
    ELSE IF s[1].txt = WS THEN <<Chunk(WS, 1)>> \o CollapseWs(LStrip(Tail(s)))
    ELSE <<s[1]>> \o CollapseWs(Tail(s))

CleanText(text) == IF text = <<>> THEN <<>> ELSE CollapseWs(RStrip(LStrip(text)))

\* ---------------------------------------------------------------- URLs

\* chunks an href can start with when it carries its own scheme
Schemes == {"https://", "http://"}
\* a chunk urlsplit rejects (ValueError: Invalid IPv6 URL)
BadNetloc == "http://["

UrlJoinRaises(href) == \E i \in 1..Len(href) : href[i].txt = BadNetloc

\* urljoin(self.base_url, href) for an href that does not make it raise: an
\* href with a scheme is kept, a root-relative one is put behind the base.
UrlJoin(base, href) == IF href[1].txt \in Schemes THEN href ELSE base \o href

\* skip_patterns
SkipPatterns == <<"javascript:", "mailto:", "#", "/search", "/tag", "/category", "google.com/search">>

\* `pattern in url.lower()`, for the texts the modelled hrefs are made of
Occurs(pattern, txt) ==
    <<pattern, txt>> \in
        { <<"javascript:", "javascript:">>, <<"javascript:", "JavaScript:">>,
          <<"mailto:", "mailto:">>, <<"#", "#">>,
          <<"/search", "/en/search/">>, <<"/tag", "/tag/">>, <<"/tag", "/TAG/">>,
          <<"/category", "/category/">>,
          <<"google.com/search", "google.com/search">>, <<"/search", "google.com/search">> }

IsValidArticleUrl(url) ==
    IF url = <<>> THEN FALSE
    ELSE ~\E p \in 1..Len(SkipPatterns) : \E i \in 1..Len(url) : Occurs(SkipPatterns[p], url[i].txt)

\* ---------------------------------------------------------------- extract_article_info

\* What the selectors of extract_article_info find in one container:
\*   title    text of the title element (h3.search-result__title, h1..h4, a, .title), if any
\*   href     href of the link inside the title element, else of the first link, if any
\*   summary  text of p.search-result__summary, if any
\*   descs    texts of the elements the fallback description selectors find, in order
\*   img      <<[src (optional), alt]>> of img.search-result__featured-img, if any
\*   eyebrow  text of p.search-result__eyebrow, if any
\*   date     <<[datetime (optional), text]>> of the first fallback date element, if any
Elem(title, href, summary, descs, img, eyebrow, date) ==
    [title |-> title, href |-> href, summary |-> summary, descs |-> descs,
     img |-> img, eyebrow |-> eyebrow, date |-> date]

NoTitle == Str("No Title", 8)

\* the first fallback description whose cleaned text has more than 10 characters
RECURSIVE FirstMeaningful(_, _)
FirstMeaningful(descs, fallback) ==
    IF descs = <<>> THEN fallback
    ELSE LET desc_text == CleanText(descs[1])
         IN  IF desc_text /= <<>> /\ StrLen(desc_text) > MinDescLen THEN desc_text
             ELSE FirstMeaningful(Tail(descs), fallback)

\* date_elem.get('datetime') or date_elem.get_text(), through parse_date
DateOf(date_elem, clock) ==
    ParseDate(IF date_elem.datetime /= None THEN date_elem.datetime[1] ELSE date_elem.text, clock)

ImgMarkup(img, description) ==
    Str("<img src=\"", 10) \o img.src \o Str("\" alt=\"", 7) \o img.alt
        \o Str("\" style=\"max-width: 100%; height: auto;\"><br><br>", 49) \o description

\* <<article>>, or <<>> when an exception inside the try makes it return None
ExtractArticleInfo(article_elem, clock) ==
    LET title == IF article_elem.title /= None THEN CleanText(article_elem.title[1]) ELSE NoTitle
        hasHref == article_elem.href /= None /\ article_elem.href[1] /= <<>>
        link == IF hasHref THEN UrlJoin(BaseUrl, article_elem.href[1]) ELSE SearchUrl
        description ==
            IF article_elem.summary /= None THEN CleanText(article_elem.summary[1])
            ELSE FirstMeaningful(article_elem.descs, title)
        featured_img ==
            IF article_elem.img /= None /\ article_elem.img[1].src /= None
                   /\ article_elem.img[1].src[1] /= <<>>
            THEN Some([src |-> article_elem.img[1].src[1], alt |-> article_elem.img[1].alt])
            ELSE None
        pub_date ==
            IF article_elem.eyebrow /= None THEN ParseDate(article_elem.eyebrow[1], clock)
            ELSE IF article_elem.date /= None THEN DateOf(article_elem.date[1], clock)
            ELSE IsoFormat(UtcNow(clock))
        enhanced_description ==
            IF featured_img /= None THEN ImgMarkup(featured_img[1], description) ELSE description
    IN  IF hasHref /\ UrlJoinRaises(article_elem.href[1]) THEN None
        ELSE Some([title |-> Slice(title, TitleLimit),
                   link |-> link,
                   description |-> Slice(enhanced_description, DescLimit),
                   pub_date |-> pub_date,
                   guid |-> link,
                   image |-> featured_img])

\* ---------------------------------------------------------------- scrape_individual_article

\* What the selectors of scrape_individual_article find in a linked page:
\*   title    text of h1, else of title, if any
\*   content  <<[paragraphs, text]>> of the first matching content selector, if any
\*   date     <<[datetime (optional), text]>> of the first matching date selector, if any
ArticlePage(title, content, date) == [title |-> title, content |-> content, date |-> date]

\* [article |-> <<article>> or <<>> (None), fetch |-> the fetch_page call it made]
ScrapeIndividualArticle(url, fallback_title, net, clock) ==
    LET got == FetchPage(url, DefaultMaxRetries, net)
        soup == got.response[1].body
        title == IF soup.title /= None THEN CleanText(soup.title[1]) ELSE fallback_title
        found ==
            IF soup.content = None THEN <<>>
            ELSE IF soup.content[1].paragraphs /= <<>>
                 THEN CleanText(soup.content[1].paragraphs[1])
                 ELSE Slice(CleanText(soup.content[1].text), PageDescLimit)
        description == IF found = <<>> THEN title ELSE found
        pub_date ==
            IF soup.date /= None THEN DateOf(soup.date[1], clock) ELSE IsoFormat(UtcNow(clock))
    IN  [fetch |-> [url |-> url, kind |-> got.kind, trace |-> got.trace],
         article |->
            IF got.kind /= "returned" THEN None
            ELSE Some([title |-> Slice(title, TitleLimit),
                       link |-> url,
                       description |-> Slice(description, PageDescLimit),
                       pub_date |-> pub_date,
                       guid |-> url])]

\* ---------------------------------------------------------------- scrape_articles

\* the decimal text of int(time.time())
Number(n) == <<[txt |-> "0123456789", len |-> 10, value |-> n]>>

\* `for selector in ...: found = soup.select(selector); if found: break`
RECURSIVE FirstNonEmpty(_)
FirstNonEmpty(results) ==
    IF results = <<>> THEN <<>>
    ELSE IF results[1] /= <<>> THEN results[1]
    ELSE FirstNonEmpty(Tail(results))

\* a loop that stops at the first container whose extraction fails
RECURSIVE ProcessContainers_StopOnFailure(_, _, _)
ProcessContainers_StopOnFailure(elems, clock, acc) ==
    IF elems = <<>> THEN acc
    ELSE LET article == ExtractArticleInfo(elems[1], clock)
         IN  IF article = None THEN acc
             ELSE ProcessContainers_StopOnFailure(Tail(elems), clock, Append(acc, article[1]))

\* the loop over found_articles[:max_articles]
RECURSIVE ProcessContainers(_, _, _)
ProcessContainers(elems, clock, acc) ==
    IF elems = <<>> THEN acc
    ELSE LET article == ExtractArticleInfo(elems[1], clock)
         IN  ProcessContainers(Tail(elems), clock,
                               IF article /= None THEN Append(acc, article[1]) ELSE acc)

\* a loop that fetches every link with an href, without is_valid_article_url
RECURSIVE ProcessLinks_NoFilter(_, _, _)
ProcessLinks_NoFilter(links, clock, st) ==
    IF links = <<>> THEN st
    ELSE LET link == links[1]
             href == link.href
         IN  IF href /= None /\ href[1] /= <<>>
             THEN IF UrlJoinRaises(href[1])
                  THEN [st EXCEPT !.raised = Some(Str("Invalid IPv6 URL", 16))]
                  ELSE LET r == ScrapeIndividualArticle(UrlJoin(BaseUrl, href[1]),
                                                        link.text, link.net, clock)
                       IN  ProcessLinks_NoFilter(Tail(links), clock,
                              [st EXCEPT !.fetches = Append(st.fetches, r.fetch),
                                         !.articles = IF r.article /= None
                                                      THEN Append(st.articles, r.article[1])
                                                      ELSE st.articles])
             ELSE ProcessLinks_NoFilter(Tail(links), clock, st)

\* A link the link selectors find: href (optional), text (link.get_text()),
\* and net, what the GETs of its address meet.
\* The loop over links[:max_links]; st = [articles, fetches, raised], raised
\* being <<text>> once urljoin has raised ValueError out of the loop.
RECURSIVE ProcessLinks(_, _, _)
ProcessLinks(links, clock, st) ==
    IF links = <<>> THEN st
    ELSE LET link == links[1]
             href == link.href
         IN  IF href /= None /\ href[1] /= <<>> /\ IsValidArticleUrl(href[1])
             THEN IF UrlJoinRaises(href[1])
                  THEN [st EXCEPT !.raised = Some(Str("Invalid IPv6 URL", 16))]
                  ELSE LET r == ScrapeIndividualArticle(UrlJoin(BaseUrl, href[1]),
                                                        link.text, link.net, clock)
                       IN  ProcessLinks(Tail(links), clock,
                              [st EXCEPT !.fetches = Append(st.fetches, r.fetch),
                                         !.articles = IF r.article /= None
                                                      THEN Append(st.articles, r.article[1])
                                                      ELSE st.articles])
             ELSE ProcessLinks(Tail(links), clock, st)

\* a fallback entry that points at the site root instead of the search page
PlaceholderArticle_SiteRoot(clock) ==
    [title |-> Str("Google Developers Search Blog", 29),
     link |-> BaseUrl,
     description |-> Str("Latest updates from Google Developers Search team", 49),
     pub_date |-> IsoFormat(UtcNow(clock)),
     guid |-> BaseUrl]

\* the fallback entry of lines 173-179
PlaceholderArticle(clock) ==
    [title |-> Str("Google Developers Search Blog", 29),
     link |-> SearchUrl,
     description |-> Str("Latest updates from Google Developers Search team", 49),
     pub_date |-> IsoFormat(UtcNow(clock)),
     guid |-> SearchUrl]

\* the entry of the except branch, lines 184-190
ErrorArticle(e, clock) ==
    [title |-> Str("Google Developers Search Blog - Error", 37),
     link |-> SearchUrl,
     description |-> Str("Error occurred while scraping: ", 31) \o e,
     pub_date |-> IsoFormat(UtcNow(clock)),
     guid |-> SearchUrl \o Str("#error-", 7) \o Number(clock.sec)]

\* a handler that reports the error without adding the error entry
OnException_NoEntry(partial, e, clock) == partial

\* except Exception as e: articles.append({...})
OnException(partial, e, clock) == Append(partial, ErrorArticle(e, clock))

\* a scrape that walks every discovered link
ScrapeArticles_NoLinkCap(net, clock) ==
    LET got == FetchPage(SearchUrl, DefaultMaxRetries, net)
        first == <<[url |-> SearchUrl, kind |-> got.kind, trace |-> got.trace]>>
        soup == got.response[1].body
        google == FirstNonEmpty(soup.google)
        found_articles == IF google /= <<>> THEN google ELSE FirstNonEmpty(soup.general)
        max_articles == Min(Len(found_articles), MaxArticles)
        links == FirstNonEmpty(soup.links)
        max_links == Len(links)
        walked ==
            IF found_articles /= <<>>
            THEN [articles |-> ProcessContainers(SubSeq(found_articles, 1, max_articles), clock, <<>>),
                  fetches |-> first, raised |-> None]
            ELSE ProcessLinks(SubSeq(links, 1, max_links), clock,
                              [articles |-> <<>>, fetches |-> first, raised |-> None])
    IN  IF got.kind = "raised"
        THEN [articles |-> OnException(<<>>, got.error[1], clock),
              fetches |-> first, caught |-> got.error]
        ELSE IF got.kind = "none"
        THEN \* response is None: response.content raises AttributeError
             [articles |-> OnException(<<>>, Str("AttributeError", 54), clock),
              fetches |-> first, caught |-> Some(Str("AttributeError", 54))]
        ELSE IF walked.raised /= None
        THEN [articles |-> OnException(walked.articles, walked.raised[1], clock),
              fetches |-> walked.fetches, caught |-> walked.raised]
        ELSE [articles |-> IF walked.articles = <<>> THEN <<PlaceholderArticle(clock)>>
                           ELSE walked.articles,
              fetches |-> walked.fetches, caught |-> None]

\* A search page is what the selector cascades find in it: google and general
\* hold the result of each container selector in order, links the result of
\* each link selector in order.
\* Result: [articles, fetches, caught].
ScrapeArticles(net, clock) ==
    LET got == FetchPage(SearchUrl, DefaultMaxRetries, net)
        first == <<[url |-> SearchUrl, kind |-> got.kind, trace |-> got.trace]>>
        soup == got.response[1].body
        google == FirstNonEmpty(soup.google)
        found_articles == IF google /= <<>> THEN google ELSE FirstNonEmpty(soup.general)
        max_articles == Min(Len(found_articles), MaxArticles)
        links == FirstNonEmpty(soup.links)
        max_links == Min(Len(links), MaxArticles)
        walked ==
            IF found_articles /= <<>>
            THEN [articles |-> ProcessContainers(SubSeq(found_articles, 1, max_articles), clock, <<>>),
                  fetches |-> first, raised |-> None]
            ELSE ProcessLinks(SubSeq(links, 1, max_links), clock,
                              [articles |-> <<>>, fetches |-> first, raised |-> None])
    IN  IF got.kind = "raised"
        THEN [articles |-> OnException(<<>>, got.error[1], clock),
              fetches |-> first, caught |-> got.error]
        ELSE IF got.kind = "none"
        THEN \* response is None: response.content raises AttributeError
             [articles |-> OnException(<<>>, Str("AttributeError", 54), clock),
              fetches |-> first, caught |-> Some(Str("AttributeError", 54))]
        ELSE IF walked.raised /= None
        THEN [articles |-> OnException(walked.articles, walked.raised[1], clock),
              fetches |-> walked.fetches, caught |-> walked.raised]
        ELSE [articles |-> IF walked.articles = <<>> THEN <<PlaceholderArticle(clock)>>
                           ELSE walked.articles,
              fetches |-> walked.fetches, caught |-> None]

\* ---------------------------------------------------------------- generate_rss

\* article.get('image')
GetImage(article) == IF "image" \in DOMAIN article THEN article.image ELSE None

\* one <item>: enclosure is <<[url, type]>> or <<>>
Item(article) ==
    [title |-> article.title,
     link |-> article.link,
     description |-> Str("<![CDATA[", 9) \o article.description \o Str("]]>", 3),
     pubDate |-> Rfc822(FromIsoFormat(ReplaceZ(article.pub_date))),
     guid |-> article.guid,
     enclosure |-> IF GetImage(article) /= None
                   THEN Some([url |-> GetImage(article)[1].src, type |-> "image/png"])
                   ELSE None]

\* items added in front of the earlier ones
RECURSIVE Items_Reversed(_)
Items_Reversed(list) ==
    IF list = <<>> THEN <<>> ELSE Items_Reversed(Tail(list)) \o <<Item(list[1])>>

\* for article in articles: item = ET.SubElement(channel, "item") ...
RECURSIVE Items(_)
Items(list) == IF list = <<>> THEN <<>> ELSE <<Item(list[1])>> \o Items(Tail(list))

\* the document written to output_file
GenerateRss(list, clock) ==
    [version |-> "2.0",
     title |-> Str("Google Developers Search Blog", 29),
     link |-> SearchUrl,
     description |-> Str("Latest updates from Google Developers Search team", 49),
     language |-> "en-us",
     lastBuildDate |-> Rfc822(UtcNow(clock)),
     items |-> Items(list)]

\* ---------------------------------------------------------------- inputs

\* the clock at the start of a run (datetime.now carries microseconds)
Clocks == {[sec |-> 1000 + s, micro |-> 250000] : s \in 0..MaxClock}

Ok200(body) == GetOutcome("", 200, body)
Status(code, body) == GetOutcome("", code, body)
Failed(exc, body) == GetOutcome(exc, 0, body)

\* the path of the i-th post: "/en/post-" and a slug of i characters
Slug(i) == Str("/en/post-", 9) \o Str("n", i)

ContainerKinds == {"full", "image", "bare", "broken"}
\* the kinds a whole list may be made of
CommonContainerKinds == {"full", "broken"}

\* the i-th container of a page, of the given kind:
\*   full    title, link, summary and an eyebrow date "AUG. 1, 2025 / TAGS"
\*   image   full, with a featured image
\*   bare    nothing any selector finds
\*   broken  full, with an href urljoin rejects
MkElem(kind, i) ==
    CASE kind = "full" ->
            Elem(Some(Str(WS, 2) \o Str("title", 30) \o Str(WS, 1)), Some(Slug(i)),
                 Some(Str("summary", 80)), <<>>, None, Some(DateStr("B.UP", 10 + i, TRUE)), None)
      [] kind = "image" ->
            Elem(Some(Str("title", 30)), Some(Slug(i)), Some(Str("summary", 80)), <<>>,
                 Some([src |-> Some(Str("https://", 8) \o Str("img", 20) \o Str("n", i)),
                       alt |-> Str("alt", 5)]),
                 None, Some([datetime |-> Some(DateStr("iso", 10 + i, FALSE)),
                             text |-> DateStr("other", 0, FALSE)]))
      [] kind = "bare" -> Elem(None, None, None, <<>>, None, None, None)
      [] OTHER ->
            Elem(Some(Str("title", 30)), Some(Str(BadNetloc, 8) \o Slug(i)),
                 Some(Str("summary", 80)), <<>>, None, Some(DateStr("b", 10 + i, FALSE)), None)

EmptyArticlePage == ArticlePage(None, None, None)

LinkedPage(i) ==
    ArticlePage(Some(Str("h1", 20)),
                Some([paragraphs |-> <<Str("para", 600)>>, text |-> Str("content", 900)]),
                Some([datetime |-> None, text |-> DateStr("b.", 10 + i, FALSE)]))

LinkKinds == {"ok", "retry", "dead", "undated", "skipped", "nohref", "broken"}
\* the kinds a whole list may be made of
CommonLinkKinds == {"ok", "dead", "skipped"}

\* the i-th link of a page, of the given kind:
\*   ok       a post address whose page is served at once
\*   retry    a post address served on the third GET
\*   dead     a post address never served
\*   undated  a post address whose page has neither title, content nor date
\*   skipped  an address is_valid_article_url rejects
\*   nohref   an <a> without href
\*   broken   an address urljoin rejects
MkLink(kind, i) ==
    LET served == Ok200(LinkedPage(i))
        down == Status(503, EmptyArticlePage)
        link(href, net) == [href |-> href, text |-> Str("link text", 12), net |-> net]
    IN  CASE kind = "ok" -> link(Some(Slug(i)), <<served, served, served>>)
          [] kind = "retry" ->
                link(Some(Slug(i)), <<Failed("Timeout", EmptyArticlePage), down, served>>)
          [] kind = "dead" -> link(Some(Slug(i)), <<down, down, down>>)
          [] kind = "undated" ->
                link(Some(Slug(i)), <<Ok200(EmptyArticlePage), served, served>>)
          [] kind = "skipped" -> link(Some(Str("/tag/", 5) \o Str("n", i)), <<served, served, served>>)
          [] kind = "nohref" -> link(None, <<served, served, served>>)
          [] OTHER -> link(Some(Str(BadNetloc, 8) \o Slug(i)), <<served, served, served>>)

\* list lengths: short lists, and lists around the cap
Lens == (0..SmallLen) \cup ((MaxArticles - 1)..(MaxArticles + OverCap))

\* where a list may hold an element that differs from the rest
OddPositions(n) == {1, 2, MaxArticles, MaxArticles + 1} \cap (1..n)

\* the choices of at most MaxOdd odd elements: functions position -> kind
OddChoices(n, kinds) ==
    UNION {[P -> kinds] : P \in {Q \in SUBSET OddPositions(n) : Cardinality(Q) <= MaxOdd}}

KindAt(common, odd, i) == IF i \in DOMAIN odd THEN odd[i] ELSE common

ContainerLists(lens) ==
    UNION {UNION {{[i \in 1..n |-> MkElem(KindAt(c, odd, i), i)] :
                        odd \in OddChoices(n, ContainerKinds \ {c})} :
                  c \in CommonContainerKinds} : n \in lens}

LinkLists(lens) ==
    UNION {UNION {{[i \in 1..n |-> MkLink(KindAt(c, odd, i), i)] :
                        odd \in OddChoices(n, LinkKinds \ {c})} :
                  c \in CommonLinkKinds} : n \in lens}

SearchPage(google, general, links) == [google |-> google, general |-> general, links |-> links]

\* n selector results, all empty but the k-th
Slots(n, k, list) == [s \in 1..n |-> IF s = k THEN list ELSE <<>>]

EmptySearchPage == SearchPage(Slots(6, 0, <<>>), Slots(6, 0, <<>>), Slots(4, 0, <<>>))

\* pages whose containers a Google selector finds (a general selector and a
\* link selector would find something too), pages whose containers only a
\* general selector finds, and pages without containers
Pages(lens) ==
    {SearchPage(Slots(6, 2, list), Slots(6, 1, <<MkElem("bare", 1)>>), Slots(4, 1, <<MkLink("ok", 1)>>)) :
        list \in ContainerLists(lens) \ {<<>>}}
    \cup {SearchPage(Slots(6, 0, <<>>), Slots(6, 6, list), Slots(4, 2, <<MkLink("dead", 1)>>)) :
        list \in ContainerLists(lens) \ {<<>>}}
    \cup {SearchPage(Slots(6, 0, <<>>), Slots(6, 0, <<>>), Slots(4, 1 + 3 * (Len(list) % 2), list)) :
        list \in LinkLists(lens)}

\* what the three GETs of the search page meet
Worlds ==
    LET down == Status(503, EmptySearchPage)
        timeout == Failed("Timeout", EmptySearchPage)
    IN  {<<Ok200(pg), down, down>> : pg \in Pages(Lens)}
        \cup {<<timeout, Ok200(pg), down>> : pg \in Pages(0..SmallLen)}
        \cup {<<down, timeout, Ok200(pg)>> : pg \in Pages(0..SmallLen)}
        \cup {<<down, timeout,
                 Ok200(SearchPage(Slots(6, 0, <<>>), Slots(6, 0, <<>>),
                                  Slots(4, 1, [i \in 1..n |-> MkLink("dead", i)])))>> :
                 n \in Lens \ (0..SmallLen)}
        \cup {<<down, down, down>>, <<timeout, timeout, timeout>>,
              <<timeout, down, Status(404, EmptySearchPage)>>,
              <<Status(304, EmptySearchPage), down, down>>}

\* ---------------------------------------------------------------- main

Idle == [fn |-> "", args |-> <<>>]

Init ==
    /\ pc = "start"
    /\ now \in Clocks
    /\ world = None
    /\ articles = <<>>
    /\ fetches = <<>>
    /\ caught = None
    /\ feed = None
    /\ exitWhy = ""
    /\ calls = [scrape |-> 0, generate |-> 0]
    /\ call = Idle
    /\ ret = None

\* articles = scraper.scrape_articles()
MainScrape ==
    /\ pc = "start"
    /\ \E net \in Worlds :
          LET r == ScrapeArticles(net, now)
          IN  /\ world' = Some(net)
              /\ articles' = r.articles
              /\ fetches' = r.fetches
              /\ caught' = r.caught
    /\ calls' = [calls EXCEPT !.scrape = @ + 1]
    /\ pc' = "scraped"
    /\ UNCHANGED <<now, feed, exitWhy, call, ret>>

\* a main that may serialize before it has scraped
MainGenerate_Unordered ==
    /\ pc \in {"start", "scraped"}
    /\ IF articles = <<>>
       THEN /\ pc' = "exit1"
            /\ exitWhy' = "empty"
            /\ UNCHANGED <<feed, calls>>
       ELSE \E write_ok \in BOOLEAN :
               /\ calls' = [calls EXCEPT !.generate = @ + 1]
               /\ IF write_ok
                  THEN /\ feed' = Some(GenerateRss(articles, now))
                       /\ pc' = "done"
                       /\ UNCHANGED exitWhy
                  ELSE /\ pc' = "exit1"
                       /\ exitWhy' = "error"
                       /\ UNCHANGED feed
    /\ UNCHANGED <<now, world, articles, fetches, caught, call, ret>>

\* `if not articles: sys.exit(1)`, then scraper.generate_rss(articles, output_file);
\* write_ok is whether building and writing the file raised nothing
MainGenerate ==
    /\ pc = "scraped"
    /\ IF articles = <<>>
       THEN /\ pc' = "exit1"
            /\ exitWhy' = "empty"
            /\ UNCHANGED <<feed, calls>>
       ELSE \E write_ok \in BOOLEAN :
               /\ calls' = [calls EXCEPT !.generate = @ + 1]
               /\ IF write_ok
                  THEN /\ feed' = Some(GenerateRss(articles, now))
                       /\ pc' = "done"
                       /\ UNCHANGED exitWhy
                  ELSE /\ pc' = "exit1"
                       /\ exitWhy' = "error"
                       /\ UNCHANGED feed
    /\ UNCHANGED <<now, world, articles, fetches, caught, call, ret>>

Next == MainScrape \/ MainGenerate

Spec == Init /\ [][Next]_vars

\* ---------------------------------------------------------------- fetch_page as a function

\* what one GET can meet
FetchOutcomes ==
    {Ok200(EmptySearchPage), Status(304, EmptySearchPage), Status(404, EmptySearchPage),
     Status(503, EmptySearchPage), Failed("Timeout", EmptySearchPage)}

LibInit(fn, args) ==
    /\ pc = "lib"
    /\ world = None
    /\ articles = <<>>
    /\ fetches = <<>>
    /\ caught = None
    /\ feed = None
    /\ exitWhy = ""
    /\ calls = [scrape |-> 0, generate |-> 0]
    /\ call = [fn |-> fn, args |-> args]
    /\ ret = None

InitFetch ==
    /\ now \in {[sec |-> 1000, micro |-> 250000]}
    /\ \E max_retries \in 0..MaxRetriesArg :
       \E net \in [1..MaxRetriesArg -> FetchOutcomes] :
          LibInit("fetch_page", [url |-> SearchUrl, max_retries |-> max_retries, net |-> net])

\* self.fetch_page(url, max_retries)
CallFetchPage ==
    /\ pc = "lib"
    /\ call.fn = "fetch_page"
    /\ ret' = Some(FetchPage(call.args.url, call.args.max_retries, call.args.net))
    /\ pc' = "returned"
    /\ UNCHANGED <<now, world, articles, fetches, caught, feed, exitWhy, calls, call>>

NextFetch == CallFetchPage

SpecFetch == InitFetch /\ [][NextFetch]_vars

\* ---------------------------------------------------------------- extract_article_info as a function

TextLens ==
    {40, PageDescLimit, PageDescLimit + OverLen, DescLimit - 60, DescLimit, DescLimit + OverLen}

ExtractElems ==
    {Elem(title, href, summary, descs, img, eyebrow, date) :
        title \in {None, Some(<<>>), Some(Str("title", 30)),
                   Some(Str(WS, 3) \o Str("title", TitleLimit) \o Str(WS, 2) \o Str("more", OverLen))},
        href \in {None, Some(<<>>), Some(Slug(1)), Some(Str("https://", 8) \o Str("host/path", 20)),
                  Some(Str(BadNetloc, 8) \o Slug(1))},
        summary \in {None} \cup {Some(Str("summary", n)) : n \in TextLens},
        descs \in {<<>>, <<Str("short", 5), Str(WS, 4) \o Str("desc", 40)>>},
        img \in {None, Some([src |-> None, alt |-> Str("alt", 5)]),
                 Some([src |-> Some(Str("https://", 8) \o Str("img", 20)), alt |-> Str("alt", 5)])},
        eyebrow \in {None, Some(DateStr("B.UP", 10, TRUE)), Some(DateStr("other", 0, FALSE))},
        date \in {None,
                  Some([datetime |-> Some(DateStr("iso", 20, FALSE)), text |-> DateStr("other", 0, FALSE)]),
                  Some([datetime |-> None, text |-> DateStr("us", 30, TRUE)])}}

InitExtract ==
    /\ now \in Clocks
    /\ \E article_elem \in ExtractElems :
          LibInit("extract_article_info", [article_elem |-> article_elem])

\* self.extract_article_info(article_elem)
CallExtractArticleInfo ==
    /\ pc = "lib"
    /\ call.fn = "extract_article_info"
    /\ ret' = Some(ExtractArticleInfo(call.args.article_elem, now))
    /\ pc' = "returned"
    /\ UNCHANGED <<now, world, articles, fetches, caught, feed, exitWhy, calls, call>>

NextExtract == CallExtractArticleInfo

SpecExtract == InitExtract /\ [][NextExtract]_vars

\* ================================================================ properties

\* the attempt failed in the sense of the requests library: an exception of
\* the transport, or a 4xx/5xx status
HttpError(out) == out.exc /= "" \/ out.status \in 400..599

\* the attempt did not end in a 2xx response
NotSuccess2xx(out) == out.exc /= "" \/ out.status \notin 200..299

ErrorTitle == Str("Google Developers Search Blog - Error", 37)

\* every GET scrape_articles can make on the search page fails
AllSearchGetsFail == world /= None /\ \A k \in 1..3 : HttpError(world[1][k])

\* C1: scrape_articles() returns a non-empty list for every outcome; when
\* every GET attempt on the search page fails, the list is exactly one
\* article, the error article (error title, link = search URL).
C1_NeverEmpty ==
    pc /= "start" =>
        /\ articles /= <<>>
        /\ AllSearchGetsFail =>
              /\ Len(articles) = 1
              /\ articles[1].title = ErrorTitle
              /\ articles[1].link = SearchUrl
              /\ caught /= None

\* three failed GETs, two sleeps, then the error article
C1_Witness ==
    /\ pc = "scraped"
    /\ AllSearchGetsFail
    /\ Len(fetches) = 1 /\ Len(fetches[1].trace) = 5
    /\ Len(articles) = 1

Backoff == <<1, 2, 4, 8, 16, 32>>

GetsOf(trace) == Cardinality({j \in 1..Len(trace) : trace[j].ev = "get"})

\* The retry discipline of fetch_page, for a given notion of "failed attempt":
\* at most max_retries GETs; the trace is GET 0, sleep 1, GET 1, sleep 2, ...
\* and ends with a GET; every GET but the last failed; a returned response is
\* that of the last GET, which did not fail (so it is the first success and no
\* GET follows it); a raised error is that of GET number max_retries - 1.
RetryDiscipline(r, max_retries, net, Fails(_)) ==
    LET gets == GetsOf(r.trace)
    IN  /\ gets <= max_retries
        /\ Len(r.trace) = IF gets = 0 THEN 0 ELSE 2 * gets - 1
        /\ \A j \in 1..Len(r.trace) :
              IF j % 2 = 1
              THEN r.trace[j].ev = "get" /\ r.trace[j].attempt = (j - 1) \div 2
              ELSE r.trace[j].ev = "sleep" /\ r.trace[j].secs = Backoff[j \div 2]
        /\ \A k \in 1..(gets - 1) : Fails(net[k])
        /\ (\E k \in 1..max_retries : ~Fails(net[k])) =>
              /\ r.kind = "returned"
              /\ ~Fails(net[gets])
              /\ r.response = <<net[gets]>>
        /\ (max_retries >= 1 /\ \A k \in 1..max_retries : Fails(net[k])) =>
              /\ r.kind = "raised"
              /\ gets = max_retries
              /\ r.error /= None

C3_ReturnsOrRaises ==
    ret /= None => ret[1].kind \in {"returned", "raised"}

\* ---- the search page of the run, read off the inputs

\* some GET of the search page is answered without an error
SearchServed == world /= None /\ \E k \in 1..3 : ~HttpError(world[1][k])

\* the page the first such GET brings
ServedPage ==
    world[1][CHOOSE k \in 1..3 :
                ~HttpError(world[1][k]) /\ \A j \in 1..(k - 1) : HttpError(world[1][j])].body

\* the result of the first selector that finds anything
FirstOf(results) ==
    IF \E i \in 1..Len(results) : results[i] /= <<>>
    THEN results[CHOOSE i \in 1..Len(results) :
                    results[i] /= <<>> /\ \A j \in 1..(i - 1) : results[j] = <<>>]
    ELSE <<>>

FoundContainers ==
    IF FirstOf(ServedPage.google) /= <<>> THEN FirstOf(ServedPage.google)
    ELSE FirstOf(ServedPage.general)

FoundLinks == FirstOf(ServedPage.links)

\* the first 20 elements of a list
First20(list) == SubSeq(list, 1, IF Len(list) < 20 THEN Len(list) ELSE 20)

ContainerFails(e) == ExtractArticleInfo(e, now) = None

LinkUnusable(l) == l.href = None \/ l.href[1] = <<>> \/ ~IsValidArticleUrl(l.href[1])
LinkRaises(l) == ~LinkUnusable(l) /\ UrlJoinRaises(l.href[1])
LinkDead(l) == \A k \in 1..3 : HttpError(l.net[k])

\* C4: whenever the handler of scrape_articles catches an error, the partial
\* results are discarded: the list is exactly the one error article, whose
\* description carries the error text and whose guid is the search URL with
\* a timestamp suffix.
C4_ErrorDiscardsPartial ==
    caught /= None =>
        /\ Len(articles) = 1
        /\ articles[1].title = ErrorTitle
        /\ articles[1].description = Str("Error occurred while scraping: ", 31) \o caught[1]
        /\ articles[1].guid = SearchUrl \o Str("#error-", 7) \o Number(now.sec)

\* both paths leave the result list empty: every processed container fails
\* extraction, or there is no container and every processed link is
\* rejected, without href, or never served
NothingExtracted ==
    /\ SearchServed
    /\ IF FoundContainers /= <<>>
       THEN \A i \in 1..Len(First20(FoundContainers)) : ContainerFails(FoundContainers[i])
       ELSE \A i \in 1..Len(First20(FoundLinks)) :
               LinkUnusable(FoundLinks[i]) \/ (LinkDead(FoundLinks[i]) /\ ~LinkRaises(FoundLinks[i]))

\* C5: when the search page is fetched and both paths leave the result list
\* empty, scrape_articles() returns exactly one placeholder article with
\* link = guid = search URL, and no error article.
C5_Placeholder ==
    (pc /= "start" /\ NothingExtracted) =>
        /\ Len(articles) = 1
        /\ articles[1].title = Str("Google Developers Search Blog", 29)
        /\ articles[1].link = SearchUrl
        /\ articles[1].guid = SearchUrl
        /\ caught = None

\* twenty-odd links, none of them fetched into an article
C5_Witness ==
    /\ pc = "scraped"
    /\ NothingExtracted
    /\ FoundContainers = <<>>
    /\ Len(FoundLinks) > 20
    /\ Len(fetches) > 1
    /\ Len(articles) = 1

\* the articles of the containers among the first 20 whose extraction succeeds
ExtractedFromContainers ==
    LET good == SelectSeq(First20(FoundContainers), LAMBDA e : ~ContainerFails(e))
    IN  [i \in 1..Len(good) |-> ExtractArticleInfo(good[i], now)[1]]

HasImage(a) == "image" \in DOMAIN a /\ a.image /= None

\* C7: generate_rss on N articles writes N items in the order of the list;
\* item i carries article i's link and guid, its pubDate is the RFC-822
\* text (whole seconds, +0000) of the instant of article i's pub_date, and it
\* has an enclosure exactly when article i has an image.
C7_ItemsMatchArticles ==
    feed /= None =>
        LET items == feed[1].items
        IN  /\ Len(items) = Len(articles)
            /\ \A i \in 1..Len(articles) :
                  /\ items[i].link = articles[i].link
                  /\ items[i].guid = articles[i].guid
                  /\ items[i].pubDate.fmt = "rfc822"
                  /\ items[i].pubDate.sec = articles[i].pub_date.sec
                  /\ items[i].pubDate.offset = "+0000"
                  /\ articles[i].pub_date.offset = "+00:00"
                  /\ (items[i].enclosure /= None) <=> HasImage(articles[i])
                  /\ HasImage(articles[i]) => items[i].enclosure[1].url = articles[i].image[1].src

\* a feed of 20 items, some with an enclosure and some without
C7_Witness ==
    /\ pc = "done"
    /\ Len(feed[1].items) = 20
    /\ \E i \in 1..20 : feed[1].items[i].enclosure /= None
    /\ \E j \in 1..20 : feed[1].items[j].enclosure = None

\* the text of the clock of the run, as datetime.now(timezone.utc).isoformat() writes it
NowText == [fmt |-> "iso8601", sec |-> now.sec, micro |-> now.micro, offset |-> "+00:00"]

NoLink(e) == e.href = None \/ e.href[1] = <<>>
NoDate(e) == e.eyebrow = None /\ e.date = None

\* the processed containers whose extraction succeeds
GoodContainers == SelectSeq(First20(FoundContainers), LAMBDA e : ~ContainerFails(e))

\* the processed links up to the first one urljoin rejects
LinksWalked ==
    LET links == First20(FoundLinks)
        stop == {i \in 1..Len(links) : LinkRaises(links[i])}
    IN  IF stop = {} THEN links
        ELSE SubSeq(links, 1, (CHOOSE i \in stop : \A j \in stop : i <= j) - 1)

\* the linked page the first answered GET of a link brings
PageOf(l) ==
    l.net[CHOOSE k \in 1..3 : ~HttpError(l.net[k]) /\ \A j \in 1..(k - 1) : HttpError(l.net[j])].body

\* the walked links whose page is fetched
FetchedLinks == SelectSeq(LinksWalked, LAMBDA l : ~LinkUnusable(l) /\ ~LinkDead(l))

\* C8: every article of every returned list has a non-empty link, a
\* non-empty guid and a timezone-aware UTC pub_date; a container without a
\* usable link gets the search URL, and a container or linked page without a
\* date gets the current time.
C8_LinkGuidDate ==
    pc /= "start" =>
        /\ \A i \in 1..Len(articles) :
              /\ articles[i].link /= <<>>
              /\ articles[i].guid /= <<>>
              /\ "pub_date" \in DOMAIN articles[i]
              /\ articles[i].pub_date.fmt = "iso8601"
              /\ articles[i].pub_date.offset = "+00:00"
        /\ (SearchServed /\ FoundContainers /= <<>>) =>
              \A i \in 1..Len(GoodContainers) :
                  /\ NoLink(GoodContainers[i]) => articles[i].link = SearchUrl
                  /\ NoDate(GoodContainers[i]) => articles[i].pub_date = NowText
        /\ (SearchServed /\ FoundContainers = <<>>) =>
              \A i \in 1..Len(FetchedLinks) :
                  PageOf(FetchedLinks[i]).date = None => articles[i].pub_date = NowText

\* a container without link and date among dated ones
C8_Witness ==
    /\ pc = "scraped"
    /\ SearchServed
    /\ Len(GoodContainers) >= 2
    /\ NoLink(GoodContainers[2]) /\ NoDate(GoodContainers[2])
    /\ ~NoDate(GoodContainers[1])
    /\ articles[2].link = SearchUrl
    /\ articles[1].pub_date /= NowText

\* C9: generate_rss is started exactly once in every run, and only after
\* scrape_articles() returned, whatever the scrape met; the run exits with
\* status 1 only when writing the feed failed, never because an empty list
\* reached the writer.
C9_OnePassToFeed ==
    /\ calls.scrape <= 1
    /\ calls.generate <= 1
    /\ calls.generate = 1 => (calls.scrape = 1 /\ world /= None /\ pc \in {"done", "exit1"})
    /\ pc \in {"done", "exit1"} => calls.generate = 1
    /\ pc = "exit1" => (exitWhy = "error" /\ feed = None)
    /\ exitWhy /= "empty"
    /\ pc = "done" => (exitWhy = "" /\ feed /= None)

\* a run whose search page was never served still writes the feed
C9_Witness ==
    /\ pc = "done"
    /\ AllSearchGetsFail
    /\ calls = [scrape |-> 1, generate |-> 1]
    /\ Len(feed[1].items) = 1

\* p is the text s cut somewhere
IsPrefix(p, s) ==
    \/ p = <<>>
    \/ /\ Len(p) <= Len(s)
       /\ \A i \in 1..(Len(p) - 1) : p[i] = s[i]
       /\ p[Len(p)].txt = s[Len(p)].txt
       /\ p[Len(p)].len <= s[Len(p)].len

\* out is text cut to n characters
TruncatedTo(out, text, n) ==
    /\ StrLen(out) = (IF StrLen(text) < n THEN StrLen(text) ELSE n)
    /\ IsPrefix(out, text)

TitleOf(e) == IF e.title /= None THEN CleanText(e.title[1]) ELSE Str("No Title", 8)

PlainDescription(e) ==
    IF e.summary /= None THEN CleanText(e.summary[1]) ELSE FirstMeaningful(e.descs, TitleOf(e))

ImageFound(e) == e.img /= None /\ e.img[1].src /= None /\ e.img[1].src[1] /= <<>>

WithMarkup(e) ==
    ImgMarkup([src |-> e.img[1].src[1], alt |-> e.img[1].alt], PlainDescription(e))

\* C10 as stated: 1000 characters with an image, 500 without, title 200.
C10_TextOnly500 ==
    (ret /= None /\ ret[1] /= None) =>
        LET e == call.args.article_elem
            a == ret[1][1]
        IN  /\ TruncatedTo(a.title, TitleOf(e), 200)
            /\ IF ImageFound(e)
               THEN TruncatedTo(a.description, WithMarkup(e), 1000)
               ELSE TruncatedTo(a.description, PlainDescription(e), 500)

\* C10 (amended): the description of an article of extract_article_info is
\* the image markup followed by the plain description when an image was
\* found, and the plain description otherwise, truncated to 1000 characters
\* in both cases; the title is truncated to 200 characters.
C10_Truncated1000 ==
    (ret /= None /\ ret[1] /= None) =>
        LET e == call.args.article_elem
            a == ret[1][1]
        IN  /\ TruncatedTo(a.title, TitleOf(e), 200)
            /\ IF ImageFound(e)
               THEN TruncatedTo(a.description, WithMarkup(e), 1000)
               ELSE TruncatedTo(a.description, PlainDescription(e), 1000)

\* a text-only description longer than 1000 characters, cut to 1000, under a
\* title longer than 200 characters, cut to 200
C10_Witness ==
    /\ ret /= None /\ ret[1] /= None
    /\ ~ImageFound(call.args.article_elem)
    /\ StrLen(PlainDescription(call.args.article_elem)) > 1000
    /\ StrLen(ret[1][1].description) = 1000
    /\ StrLen(TitleOf(call.args.article_elem)) > 200
    /\ StrLen(ret[1][1].title) = 200

\* the addresses of the linked pages fetch_page was called on, in call order
FetchedUrls == [i \in 1..(Len(fetches) - 1) |-> fetches[i + 1].url]

\* the addresses of a list of links
UrlsOf(links) == [i \in 1..Len(links) |-> BaseUrl \o links[i].href[1]]

\* the discovered links that pass the filter
ValidLinks(links) == SelectSeq(links, LAMBDA l : ~LinkUnusable(l))

\* C11 as stated, for the runs in which urljoin accepts every discovered
\* href: the discovered links are filtered first and the valid ones capped
\* at 20, and exactly those are fetched, in discovery order; no error
\* article comes out of a link that fails.
C11_FilterThenCap ==
    (pc /= "start" /\ SearchServed /\ FoundContainers = <<>>
        /\ \A i \in 1..Len(FoundLinks) : ~LinkRaises(FoundLinks[i])) =>
        /\ FetchedUrls = UrlsOf(First20(ValidLinks(FoundLinks)))
        /\ caught = None

\* C11 (amended): when no containers are found, the discovered links are
\* capped at 20 first and filtered second: the pages fetched are those of
\* the valid links among the first 20 discovered links, in discovery order,
\* up to the first href urljoin rejects; a filtered-out link is never
\* fetched, and a link whose fetch fails is skipped without an error article
\* (an error is caught only when urljoin rejects an href).
C11_CapThenFilter ==
    (pc /= "start" /\ SearchServed /\ FoundContainers = <<>>) =>
        /\ FetchedUrls = UrlsOf(ValidLinks(LinksWalked))
        /\ \A i \in 1..Len(FoundLinks) :
              LinkUnusable(FoundLinks[i]) =>
                  \A j \in 1..Len(fetches) : \A k \in 1..Len(FoundLinks[i].href) :
                      fetches[j].url /= BaseUrl \o FoundLinks[i].href[k]
        /\ (caught /= None) <=> (\E i \in 1..Len(First20(FoundLinks)) : LinkRaises(FoundLinks[i]))
        /\ caught = None =>
              articles = IF FetchedLinks = <<>> THEN articles
                         ELSE [i \in 1..Len(FetchedLinks) |->
                                  ScrapeIndividualArticle(BaseUrl \o FetchedLinks[i].href[1],
                                        FetchedLinks[i].text, FetchedLinks[i].net, now).article[1]]

\* 21 or more valid links behind a rejected first one: 19 pages are fetched,
\* the 21st link is not, and one of the fetched links is dead or another
\* yields an article
C11_Witness ==
    /\ pc = "scraped"
    /\ SearchServed
    /\ FoundContainers = <<>>
    /\ Len(FoundLinks) > 20
    /\ LinkUnusable(FoundLinks[1])
    /\ Len(ValidLinks(FoundLinks)) >= 20
    /\ Len(FetchedUrls) = 19
    /\ caught = None
    /\ Len(articles) = 19

\* the GETs issued by a sequence of fetch_page calls
RECURSIVE TotalGets(_)
TotalGets(fs) == IF fs = <<>> THEN 0 ELSE GetsOf(fs[1].trace) + TotalGets(Tail(fs))

\* C12: a scrape issues a bounded number of GETs: one fetch_page call on the
\* search page, of at most 3 GETs, then at most 20 calls on linked pages, of
\* at most 3 GETs each (at most 63 GETs in all); linked pages are fetched only
\* when the search page was served and no container was found in it, so a
\* run that finds containers GETs nothing but the search page, even when
\* every container fails extraction.
C12_BoundedGets ==
    pc /= "start" =>
        /\ Len(fetches) >= 1
        /\ fetches[1].url = SearchUrl
        /\ Len(fetches) - 1 <= MaxArticles
        /\ \A i \in 1..Len(fetches) :
              /\ GetsOf(fetches[i].trace) <= DefaultMaxRetries
              /\ i > 1 => fetches[i].url /= SearchUrl
        /\ TotalGets(fetches) <= DefaultMaxRetries * (1 + MaxArticles)
        /\ Len(fetches) > 1 => (SearchServed /\ FoundContainers = <<>>)
        /\ (SearchServed /\ FoundContainers /= <<>>) => TotalGets(fetches) <= DefaultMaxRetries

\* the search page comes at the third GET and each of its first 20 links takes
\* three GETs: the bound is met
C12_Witness ==
    /\ pc = "scraped"
    /\ SearchServed
    /\ FoundContainers = <<>>
    /\ Len(FoundLinks) > MaxArticles
    /\ GetsOf(fetches[1].trace) = DefaultMaxRetries
    /\ Len(fetches) = 1 + MaxArticles
    /\ TotalGets(fetches) = DefaultMaxRetries * (1 + MaxArticles)

====
